---- MODULE Spec2Model ----
(***************************************************************************)
(* State-machine model of the two scripts of california-gis-platform:      *)
(*   python/ghsl_merge_clip.py       merge -> clip -> reproject pipeline   *)
(*   python/download_water_bodies.py catalog download loop                 *)
(* A pixel is a tuple: <<>> is NaN and <<v>> is the number v.              *)
(***************************************************************************)
EXTENDS Integers, Sequences, FiniteSets, TLC

VARIABLES
  args, disk_tiles, boundary_file, clip_hits, output_file,
  pc, reproject, raster_files, boundary_gdf, rasters, merged, raster_crs,
  clipped, err, diagnostic, exit_status, trace,
  catalog, fs, dpc, filtered_catalog, row, downloaded, skipped, failed,
  dl_calls, overwritten, summary

ghslVars == <<args, disk_tiles, boundary_file, clip_hits, output_file,
              pc, reproject, raster_files, boundary_gdf, rasters, merged,
              raster_crs, clipped, err, diagnostic, exit_status, trace>>

dlVars == <<catalog, fs, dpc, filtered_catalog, row, downloaded, skipped,
            failed, dl_calls, overwritten, summary>>

vars == <<ghslVars, dlVars>>

----------------------------------------------------------------------------
\* Bounds of the model.
MaxTiles == 2
NPix == 2
MaxRows == 3

\* Program constants.
LegacyNodata == -200
BufferDistance == 5000
START_DATE == 20230101
END_DATE == 20231231

NaN == <<>>
None == "None"
EPSG4326 == "EPSG:4326"
Mollweide == "ESRI:54009"
CRSs == {EPSG4326, Mollweide}

IsNaN(p) == p = NaN

----------------------------------------------------------------------------
\* Pure raster functions of ghsl_merge_clip.py.

\* rioxarray.open_rasterio(fp, masked=True): the pixels the file declares as
\* nodata are read as NaN.
OpenRasterio(fp) ==
  [crs |-> fp.crs,
   px |-> [i \in 1..Len(fp.px) |->
             IF fp.px[i] \in fp.fill THEN NaN ELSE fp.px[i]]]

\* da.where(da >= 0, other=np.nan): every negative value becomes NaN.
WhereNotNegative(px) ==
  [i \in 1..Len(px) |->
     IF IsNaN(px[i]) \/ px[i][1] >= 0 THEN px[i] ELSE NaN]

\* da.where(da != -200, other=np.nan): NaN != -200 is true, so NaN is kept.
WhereNotSentinel(px) ==
  [i \in 1..Len(px) |->
     IF IsNaN(px[i]) \/ px[i][1] # LegacyNodata THEN px[i] ELSE NaN]

\* Integers up to 2^24 are exact in float32.
Float32Exact == 2^24

\* Nearest float32 of an integer below 2^25 (ties to the even mantissa).
Float32(v) ==
  LET a == IF v < 0 THEN -v ELSE v
      r == IF a <= Float32Exact \/ a % 2 = 0 THEN a
           ELSE IF (a - 1) % 4 = 0 THEN a - 1 ELSE a + 1
  IN IF v < 0 THEN -r ELSE r

\* da.astype('float32')
AsFloat32(px) ==
  [i \in 1..Len(px) |-> IF IsNaN(px[i]) THEN NaN ELSE <<Float32(px[i][1])>>]

\* One iteration of the load loop: open, replace the sentinel, cast, declare
\* NaN as nodata.
Normalize(fp) ==
  LET da == OpenRasterio(fp)
  IN [crs |-> da.crs, px |-> AsFloat32(WhereNotSentinel(da.px)),
      dtype |-> "float32", nodata |-> NaN]

\* max of two values with skipna=False: NaN wins.
NanMaxPropagate(a, b) ==
  IF IsNaN(a) \/ IsNaN(b) THEN NaN
  ELSE IF a[1] >= b[1] THEN a ELSE b

\* max of two values with skipna=True.
NanMax(a, b) ==
  IF IsNaN(a) THEN b
  ELSE IF IsNaN(b) THEN a
  ELSE IF a[1] >= b[1] THEN a ELSE b

\* Reduction of pixel i over the first n arrays of the stack.
RECURSIVE ReduceMax(_, _, _)
ReduceMax(stack, i, n) ==
  IF n = 0 THEN NaN
  ELSE NanMax(ReduceMax(stack, i, n - 1), stack[n].px[i])

\* xr.concat(rasters, dim='band').max(dim='band', skipna=True)
ConcatMax(stack) ==
  [i \in 1..Len(stack[1].px) |-> ReduceMax(stack, i, Len(stack))]

\* reproject = args.no_reproject
ReprojectFlagInverted(a) == a.no_reproject

\* reproject = not args.no_reproject
ReprojectFlag(a) == ~a.no_reproject

----------------------------------------------------------------------------
\* Input files of ghsl_merge_clip.py.  A tile file has a CRS, its stored
\* pixels and the set of stored values it declares as nodata.

\* The two 3x3 tiles of the specification's merge scenario: A stores its
\* missing pixels as the declared nodata 255, B as the legacy sentinel.
TileA(c) ==
  [crs |-> c, fill |-> {<<255>>},
   px |-> << <<1>>, <<255>>, <<3>>, <<4>>, <<5>>, <<255>>, <<7>>, <<8>>, <<9>> >>]

TileB(c) ==
  [crs |-> c, fill |-> {},
   px |-> << <<LegacyNodata>>, <<2>>, <<LegacyNodata>>, <<4>>, <<6>>, <<6>>,
             <<LegacyNodata>>, <<LegacyNodata>>, <<10>> >>]

\* A tile with negative values, a value float32 cannot hold and no declared
\* nodata.
TileC(c) ==
  [crs |-> c, fill |-> {},
   px |-> << <<-5>>, <<-5>>, <<0>>, <<LegacyNodata>>, <<-3>>, <<16777217>>,
             <<-201>>, <<-199>>, <<255>> >>]

TileLibrary(c) == {TileA(c), TileB(c), TileC(c)}

\* The file a previous run left at the output path: float32 with NaN nodata.
\* Its name ghsl_<year>.tif matches the pattern *<year>*.tif as well.
PreviousOutput(c) ==
  [crs |-> c, fill |-> {NaN},
   px |-> << NaN, <<2>>, <<3>>, <<4>>, <<6>>, NaN, <<7>>, <<8>>, NaN >>]

SeqsUpTo(S, n) == UNION {[1..k -> S] : k \in 0..n}

NoBoundary == [loaded |-> FALSE, crs |-> None, buffer |-> 0, reprojected |-> 0]
NoRaster == [crs |-> None, px |-> <<>>, nodata |-> NaN]
NoClip == [crs |-> None, dtype |-> None, nodata |-> NaN,
           mask |-> [crs |-> None, buffer |-> 0]]
Absent == [kind |-> "absent", crs |-> None]

InitDl0 ==
  /\ catalog = <<>> /\ fs = {} /\ dpc = "idle" /\ filtered_catalog = <<>>
  /\ row = 0 /\ downloaded = 0 /\ skipped = 0 /\ failed = 0
  /\ dl_calls = <<>> /\ overwritten = {} /\ summary = <<>>

InitRun ==
  /\ pc = "glob"
  /\ reproject = ReprojectFlag(args)
  /\ raster_files = <<>> /\ boundary_gdf = NoBoundary /\ rasters = <<>>
  /\ merged = NoRaster /\ raster_crs = None /\ clipped = NoClip
  /\ err = "none" /\ diagnostic = "" /\ exit_status = <<>> /\ trace = <<>>

\* State after argument parsing and configuration (lines 14-43).
Init ==
  /\ args \in [no_reproject : BOOLEAN]
  /\ \E c \in CRSs :
       /\ disk_tiles \in SeqsUpTo(TileLibrary(c), MaxTiles)
       /\ output_file \in {Absent, [kind |-> "previous", crs |-> c]}
  /\ boundary_file \in
       {[exists |-> FALSE, crs |-> None]}
         \cup {[exists |-> TRUE, crs |-> c] : c \in CRSs \cup {None}}
  /\ clip_hits \in BOOLEAN
  /\ InitRun
  /\ InitDl0

----------------------------------------------------------------------------
\* Steps of main() of ghsl_merge_clip.py.

Raise(e) == err' = e /\ pc' = "except"

Begin(step) == trace' = Append(trace, step)

\* glob.glob(raster_pattern): the tiles on disk and, when it exists, the
\* output of a previous run, in the directory's order.
GlobResults ==
  IF output_file.kind = "previous"
  THEN {<<PreviousOutput(output_file.crs)>> \o disk_tiles,
        disk_tiles \o <<PreviousOutput(output_file.crs)>>}
  ELSE {disk_tiles}

\* Glob without the check of line 48.
GlobUnchecked ==
  /\ pc = "glob"
  /\ \E found \in GlobResults : raster_files' = found
  /\ pc' = "read_file"
  /\ Begin("Discover")
  /\ UNCHANGED <<args, disk_tiles, boundary_file, clip_hits, output_file,
                 reproject, boundary_gdf, rasters, merged, raster_crs,
                 clipped, err, diagnostic, exit_status, dlVars>>

\* Lines 47-53.
Glob ==
  /\ pc = "glob"
  /\ \E found \in GlobResults :
       /\ raster_files' = found
       /\ IF found = <<>>
          THEN Raise("FileNotFoundError")
          ELSE pc' = "read_file" /\ err' = err
  /\ Begin("Discover")
  /\ UNCHANGED <<args, disk_tiles, boundary_file, clip_hits, output_file,
                 reproject, boundary_gdf, rasters, merged, raster_crs,
                 clipped, diagnostic, exit_status, dlVars>>

\* Lines 56-57: gpd.read_file(geojson_file).
LoadBoundary ==
  /\ pc = "read_file"
  /\ Begin("LoadBoundary")
  /\ IF boundary_file.exists
     THEN /\ boundary_gdf' = [loaded |-> TRUE, crs |-> boundary_file.crs,
                              buffer |-> 0, reprojected |-> 0]
          /\ pc' = "open_rasterio" /\ err' = err
     ELSE /\ \E e \in {"FileNotFoundError", "Exception"} : Raise(e)
          /\ boundary_gdf' = boundary_gdf
  /\ UNCHANGED <<args, disk_tiles, boundary_file, clip_hits, output_file,
                 reproject, raster_files, rasters, merged, raster_crs,
                 clipped, diagnostic, exit_status, dlVars>>

\* Lines 62-68: one iteration of the load loop.
NormalizeTile ==
  /\ pc = "open_rasterio"
  /\ LET i == Len(rasters) + 1
     IN /\ i <= Len(raster_files)
        /\ rasters' = Append(rasters, Normalize(raster_files[i]))
        /\ pc' = IF i = Len(raster_files) THEN "concat" ELSE pc
        /\ trace' = IF i = 1 THEN Append(trace, "Normalize") ELSE trace
  /\ UNCHANGED <<args, disk_tiles, boundary_file, clip_hits, output_file,
                 reproject, raster_files, boundary_gdf, merged, raster_crs,
                 clipped, err, diagnostic, exit_status, dlVars>>

\* Lines 70-72.
MergeRasters ==
  /\ pc = "concat"
  /\ merged' = [crs |-> rasters[1].crs, px |-> ConcatMax(rasters),
                nodata |-> NaN]
  /\ pc' = "reconcile"
  /\ Begin("Merge")
  /\ UNCHANGED <<args, disk_tiles, boundary_file, clip_hits, output_file,
                 reproject, raster_files, boundary_gdf, rasters, raster_crs,
                 clipped, err, diagnostic, exit_status, dlVars>>

\* Lines 74-79, up to to_crs: the boundary is reprojected only when its CRS
\* differs from the first raster's; to_crs raises on a boundary without CRS.
ReconcileCRS ==
  /\ pc = "reconcile"
  /\ Begin("ReconcileCRS")
  /\ raster_crs' = rasters[1].crs
  /\ IF boundary_gdf.crs # raster_crs'
     THEN IF boundary_gdf.crs = None
          THEN Raise("Exception") /\ boundary_gdf' = boundary_gdf
          ELSE /\ boundary_gdf' = [boundary_gdf EXCEPT
                                     !.crs = raster_crs',
                                     !.reprojected = @ + 1]
               /\ pc' = "buffer" /\ err' = err
     ELSE pc' = "clip" /\ err' = err /\ boundary_gdf' = boundary_gdf
  /\ UNCHANGED <<args, disk_tiles, boundary_file, clip_hits, output_file,
                 reproject, raster_files, rasters, merged, clipped,
                 diagnostic, exit_status, dlVars>>

\* Line 79, .buffer(5000), chained on to_crs inside the if.
Buffer ==
  /\ pc = "buffer"
  /\ Begin("Buffer")
  /\ boundary_gdf' = [boundary_gdf EXCEPT !.buffer = @ + BufferDistance]
  /\ pc' = "clip"
  /\ UNCHANGED <<args, disk_tiles, boundary_file, clip_hits, output_file,
                 reproject, raster_files, rasters, merged, raster_crs,
                 clipped, err, diagnostic, exit_status, dlVars>>

\* Line 86 without the test: always reproject.
AfterClipAlways == "reproject"

\* Line 86: if reproject.
AfterClip == IF reproject THEN "reproject" ELSE "to_raster"

\* Lines 82-83: merged.rio.clip raises when the geometry misses the raster.
Clip ==
  /\ pc = "clip"
  /\ Begin("Clip")
  /\ IF clip_hits
     THEN /\ clipped' = [crs |-> merged.crs, dtype |-> "float32",
                         nodata |-> merged.nodata,
                         mask |-> [crs |-> boundary_gdf.crs,
                                   buffer |-> boundary_gdf.buffer]]
          /\ pc' = AfterClip /\ err' = err
     ELSE Raise("Exception") /\ clipped' = clipped
  /\ UNCHANGED <<args, disk_tiles, boundary_file, clip_hits, output_file,
                 reproject, raster_files, boundary_gdf, rasters, merged,
                 raster_crs, diagnostic, exit_status, dlVars>>

\* Lines 86-88.
Reproject ==
  /\ pc = "reproject"
  /\ Begin("Reproject")
  /\ clipped' = [clipped EXCEPT !.crs = EPSG4326]
  /\ pc' = "to_raster"
  /\ UNCHANGED <<args, disk_tiles, boundary_file, clip_hits, output_file,
                 reproject, raster_files, boundary_gdf, rasters, merged,
                 raster_crs, err, diagnostic, exit_status, dlVars>>

\* Lines 91-97: to_raster creates the file at output_file itself ...
ToRasterOpen ==
  /\ pc = "to_raster"
  /\ Begin("Write")
  /\ output_file' = [kind |-> "partial", crs |-> None]
  /\ pc' = "to_raster_write"
  /\ UNCHANGED <<args, disk_tiles, boundary_file, clip_hits, reproject,
                 raster_files, boundary_gdf, rasters, merged, raster_crs,
                 clipped, err, diagnostic, exit_status, dlVars>>

\* ... and fills it in place.
ToRasterWrite ==
  /\ pc = "to_raster_write"
  /\ output_file' = [kind |-> "new", crs |-> clipped.crs]
  /\ pc' = "saved"
  /\ UNCHANGED <<args, disk_tiles, boundary_file, clip_hits, reproject,
                 raster_files, boundary_gdf, rasters, merged, raster_crs,
                 clipped, err, diagnostic, exit_status, trace, dlVars>>

\* Line 99.
PrintSaved ==
  /\ pc = "saved"
  /\ Begin("Done")
  /\ pc' = "return"
  /\ UNCHANGED <<args, disk_tiles, boundary_file, clip_hits, output_file,
                 reproject, raster_files, boundary_gdf, rasters, merged,
                 raster_crs, clipped, err, diagnostic, exit_status, dlVars>>

\* The pipeline step a program position belongs to.
StepOf(p) ==
  CASE p = "read_file" -> "LoadBoundary"
    [] p = "open_rasterio" -> "Normalize"
    [] p = "concat" -> "Merge"
    [] p = "reconcile" -> "ReconcileCRS"
    [] p = "buffer" -> "Buffer"
    [] p = "clip" -> "Clip"
    [] p = "reproject" -> "Reproject"
    [] OTHER -> "Write"

\* A failing call is reported and the step is tried again.
LibraryErrorRetry ==
  /\ pc \in {"read_file", "open_rasterio", "concat", "buffer", "clip",
             "reproject", "to_raster", "to_raster_write"}
  /\ err' = "Exception"
  /\ trace' = IF \/ pc = "to_raster_write"
                 \/ pc = "open_rasterio" /\ Len(rasters) > 0
              THEN trace ELSE Append(trace, StepOf(pc))
  /\ UNCHANGED <<args, disk_tiles, boundary_file, clip_hits, output_file,
                 pc, reproject, raster_files, boundary_gdf, rasters, merged,
                 raster_crs, clipped, diagnostic, exit_status, dlVars>>

\* An I/O or library call of the try block raises (unreadable tile or
\* boundary, failed reprojection, unwritable destination, full disk, ...).
\* The CRS comparison of line 78 itself cannot raise.
LibraryError ==
  /\ pc \in {"read_file", "open_rasterio", "concat", "buffer", "clip",
             "reproject", "to_raster", "to_raster_write"}
  /\ Raise("Exception")
  /\ trace' = IF \/ pc = "to_raster_write"
                 \/ pc = "open_rasterio" /\ Len(rasters) > 0
              THEN trace ELSE Append(trace, StepOf(pc))
  /\ UNCHANGED <<args, disk_tiles, boundary_file, clip_hits, output_file,
                 reproject, raster_files, boundary_gdf, rasters, merged,
                 raster_crs, clipped, diagnostic, exit_status, dlVars>>

\* Lines 101-103.
ExceptFileNotFound ==
  /\ pc = "except" /\ err = "FileNotFoundError"
  /\ diagnostic' = "Error"
  /\ pc' = "return"
  /\ UNCHANGED <<args, disk_tiles, boundary_file, clip_hits, output_file,
                 reproject, raster_files, boundary_gdf, rasters, merged,
                 raster_crs, clipped, err, exit_status, trace, dlVars>>

\* Lines 104-107.
ExceptException ==
  /\ pc = "except" /\ err = "Exception"
  /\ diagnostic' = "Unexpected error"
  /\ pc' = "return"
  /\ UNCHANGED <<args, disk_tiles, boundary_file, clip_hits, output_file,
                 reproject, raster_files, boundary_gdf, rasters, merged,
                 raster_crs, clipped, err, exit_status, trace, dlVars>>

\* Lines 110-111: main() returns and the interpreter exits with status 0;
\* nothing sets another status.
Exit ==
  /\ pc = "return"
  /\ exit_status' = <<0>>
  /\ pc' = "exit"
  /\ UNCHANGED <<args, disk_tiles, boundary_file, clip_hits, output_file,
                 reproject, raster_files, boundary_gdf, rasters, merged,
                 raster_crs, clipped, err, diagnostic, trace, dlVars>>

Next ==
  \/ Glob \/ LoadBoundary \/ NormalizeTile \/ MergeRasters \/ ReconcileCRS
  \/ Buffer \/ Clip \/ Reproject \/ ToRasterOpen \/ ToRasterWrite
  \/ PrintSaved \/ LibraryError \/ ExceptFileNotFound \/ ExceptException
  \/ Exit

Spec == Init /\ [][Next]_vars

\* The script is one synchronous thread: an enabled step is taken.
FairSpec == Spec /\ WF_vars(Next)

----------------------------------------------------------------------------
\* Normalization and merge on bounded tiles: the load loop and the merge of
\* main(), started after discovery and boundary loading, on every sequence
\* of up to MaxTiles tiles of NPix pixels.

RawValues == {<<LegacyNodata>>, <<-5>>, <<16777217>>, <<255>>}

BoundedTiles(c) ==
  {[crs |-> c, fill |-> {<<255>>}, px |-> p] : p \in [1..NPix -> RawValues]}

InitTiles ==
  /\ args = [no_reproject |-> FALSE]
  /\ disk_tiles \in
       (SeqsUpTo(BoundedTiles(Mollweide), MaxTiles) \ {<<>>})
         \cup {<<TileA(Mollweide), TileB(Mollweide)>>,
               <<TileB(Mollweide), TileA(Mollweide)>>,
               <<TileC(Mollweide)>>}
  /\ output_file = Absent
  /\ boundary_file = [exists |-> TRUE, crs |-> Mollweide]
  /\ clip_hits = TRUE
  /\ pc = "open_rasterio"
  /\ reproject = ReprojectFlag(args)
  /\ raster_files = disk_tiles
  /\ boundary_gdf = [loaded |-> TRUE, crs |-> Mollweide, buffer |-> 0,
                     reprojected |-> 0]
  /\ rasters = <<>> /\ merged = NoRaster /\ raster_crs = None
  /\ clipped = NoClip /\ err = "none" /\ diagnostic = ""
  /\ exit_status = <<>> /\ trace = <<"Discover", "LoadBoundary">>
  /\ InitDl0

NextTiles == NormalizeTile \/ MergeRasters

SpecTiles == InitTiles /\ [][NextTiles]_vars

----------------------------------------------------------------------------
\* download_water_bodies.py: main() from the catalog filter to the summary.

CatalogDates == {20221231, 20230615, END_DATE}
FileNames == {"a.tif", "b.tif"}
CatalogRows == [nominal_date : CatalogDates, name : FileNames]

\* filter_by_date: rows with start <= nominal_date <= end, in catalog order.
InRange(r) == r.nominal_date >= START_DATE /\ r.nominal_date <= END_DATE

FilterByDate(cat) == SelectSeq(cat, InRange)

InitDl ==
  /\ catalog \in SeqsUpTo(CatalogRows, MaxRows)
  /\ fs \in SUBSET FileNames
  /\ dpc = "filter"
  /\ filtered_catalog = <<>>
  /\ row = 0 /\ downloaded = 0 /\ skipped = 0 /\ failed = 0
  /\ dl_calls = <<>> /\ overwritten = {} /\ summary = <<>>
  /\ args = [no_reproject |-> FALSE] /\ disk_tiles = <<>>
  /\ boundary_file = [exists |-> FALSE, crs |-> None]
  /\ clip_hits = FALSE /\ output_file = Absent
  /\ pc = "idle" /\ reproject = ReprojectFlag(args)
  /\ raster_files = <<>> /\ boundary_gdf = NoBoundary /\ rasters = <<>>
  /\ merged = NoRaster /\ raster_crs = None /\ clipped = NoClip
  /\ err = "none" /\ diagnostic = "" /\ exit_status = <<>> /\ trace = <<>>

\* Lines 119-134: filter the catalog; return when nothing is left.
LoadAndFilter ==
  /\ dpc = "filter"
  /\ filtered_catalog' = FilterByDate(catalog)
  /\ dpc' = IF filtered_catalog' = <<>> THEN "done" ELSE "loop"
  /\ UNCHANGED <<catalog, fs, row, downloaded, skipped, failed, dl_calls,
                 overwritten, summary, ghslVars>>

\* Lines 147-155 with download_from_s3 (66-93) for row k: the row goes to
\* the download once; True writes the file, an exception is caught and gives
\* False.
Download(k) ==
  /\ dl_calls' = Append(dl_calls, k)
  /\ overwritten' = overwritten \cup ({filtered_catalog[k].name} \cap fs)
  /\ \E success \in BOOLEAN :
       IF success
       THEN /\ fs' = fs \cup {filtered_catalog[k].name}
            /\ downloaded' = downloaded + 1 /\ failed' = failed
       ELSE /\ fs' = fs
            /\ failed' = failed + 1 /\ downloaded' = downloaded

\* SkipExisting without its continue: the row is counted as skipped and
\* downloaded all the same.
SkipExistingNoContinue ==
  /\ dpc = "loop" /\ row < Len(filtered_catalog)
  /\ filtered_catalog[row + 1].name \in fs
  /\ skipped' = skipped + 1
  /\ Download(row + 1)
  /\ row' = row + 1
  /\ UNCHANGED <<catalog, dpc, filtered_catalog, summary, ghslVars>>

\* Lines 136-145: the row's file exists; count it and go to the next row.
SkipExisting ==
  /\ dpc = "loop" /\ row < Len(filtered_catalog)
  /\ filtered_catalog[row + 1].name \in fs
  /\ skipped' = skipped + 1
  /\ row' = row + 1
  /\ UNCHANGED <<catalog, fs, dpc, filtered_catalog, downloaded, failed,
                 dl_calls, overwritten, summary, ghslVars>>

\* Lines 136-155: the row's file does not exist; download it and count the
\* outcome.
DownloadRow ==
  /\ dpc = "loop" /\ row < Len(filtered_catalog)
  /\ filtered_catalog[row + 1].name \notin fs
  /\ Download(row + 1)
  /\ row' = row + 1
  /\ UNCHANGED <<catalog, dpc, filtered_catalog, skipped, summary, ghslVars>>

\* Lines 157-164.
Summary ==
  /\ dpc = "loop" /\ row = Len(filtered_catalog)
  /\ summary' = <<downloaded, skipped, failed, Len(filtered_catalog)>>
  /\ dpc' = "done"
  /\ UNCHANGED <<catalog, fs, filtered_catalog, row, downloaded, skipped,
                 failed, dl_calls, overwritten, ghslVars>>

NextDl == LoadAndFilter \/ SkipExisting \/ DownloadRow \/ Summary

SpecDl == InitDl /\ [][NextDl]_vars

----------------------------------------------------------------------------
\* Properties.

Range(f) == {f[i] : i \in DOMAIN f}
IsPrefix(a, b) == Len(a) <= Len(b) /\ a = SubSeq(b, 1, Len(a))
NoDuplicates(f) == \A i, j \in DOMAIN f : f[i] = f[j] => i = j
Count(f, x) == Cardinality({i \in DOMAIN f : f[i] = x})
Opt(b, step) == IF b THEN <<step>> ELSE <<>>
MaxOf(S) == CHOOSE m \in S : \A v \in S : v <= m

\* C1: when no tile matches the year, the run raises the no-input error
\* right after discovery: the boundary is never loaded and no later step
\* (normalize, merge, clip, reproject, write) executes.
C1_NoInputAbortsBeforeBoundary ==
  (pc # "glob" /\ raster_files = <<>>) =>
    /\ trace = <<"Discover">>
    /\ err = "FileNotFoundError"
    /\ ~boundary_gdf.loaded
    /\ rasters = <<>> /\ merged = NoRaster /\ clipped = NoClip
    /\ output_file = Absent

C1_Witness ==
  /\ pc = "exit" /\ raster_files = <<>> /\ disk_tiles = <<>>
  /\ err = "FileNotFoundError" /\ diagnostic = "Error"
  /\ boundary_file.exists

\* C2: a run that hit a fatal error prints a diagnostic and exits with a
\* non-zero status; a run exits with status zero only if Write completed.
C2_FatalErrorExitsNonZero ==
  pc = "exit" =>
    /\ err # "none" => (diagnostic # "" /\ exit_status # <<0>>)
    /\ exit_status = <<0>> => output_file.kind = "new"

\* C3: the file at the output path is never left partial: outside the write
\* call itself it is the previous output (or absent) or the complete new
\* output, and a run that failed leaves what was there before.
C3_OutputNeverPartial ==
  pc # "to_raster_write" =>
    /\ output_file.kind \in {"absent", "previous", "new"}
    /\ err # "none" => output_file.kind \in {"absent", "previous"}

CodeOrder(buffered, reprojected) ==
  <<"Discover", "LoadBoundary", "Normalize", "Merge", "ReconcileCRS">>
    \o Opt(buffered, "Buffer") \o <<"Clip">>
    \o Opt(reprojected, "Reproject") \o <<"Write", "Done">>

C5_ClipGeometryBuffered ==
  clipped # NoClip =>
    /\ clipped.mask.buffer = BufferDistance
    /\ clipped.mask.crs = raster_crs
    /\ boundary_gdf.reprojected =
         (IF boundary_file.crs # raster_crs THEN 1 ELSE 0)

\* C6: the CRS of the written raster depends on the flag alone: with
\* --no-reproject no Reproject step ran and it is the mosaic's CRS, the CRS
\* of the first tile; without it Reproject ran exactly once, after Clip and
\* before Write, and it is EPSG:4326.
C6_OutputCrsByFlag ==
  output_file.kind = "new" =>
    IF args.no_reproject
    THEN /\ Count(trace, "Reproject") = 0
         /\ output_file.crs = merged.crs
         /\ output_file.crs = raster_files[1].crs
    ELSE /\ Count(trace, "Reproject") = 1
         /\ \E i \in DOMAIN trace :
              /\ trace[i] = "Clip" /\ trace[i + 1] = "Reproject"
              /\ trace[i + 2] = "Write"
         /\ output_file.crs = EPSG4326

C6_Witness ==
  /\ pc = "exit" /\ output_file.kind = "new" /\ args.no_reproject
  /\ output_file.crs = Mollweide /\ boundary_file.crs = EPSG4326

\* The pixels a tile holds before normalization (the masked read).
InputPx(k) == OpenRasterio(raster_files[k]).px

\* C7: the merge is the NaN-skipping pixel-wise maximum of the normalized
\* tiles: each merged pixel is the greatest of the tiles' non-NaN values
\* there and NaN exactly when all are NaN; the result is the same for every
\* order of the tiles; the two 3x3 tiles of the scenario merge to
\* [[1,2,3],[4,6,6],[7,8,10]].
C7_MergeIsNanMax ==
  merged # NoRaster =>
    /\ \A i \in DOMAIN merged.px :
         LET vals == {rasters[k].px[i][1] :
                        k \in {n \in DOMAIN rasters : ~IsNaN(rasters[n].px[i])}}
         IN /\ IsNaN(merged.px[i]) <=> vals = {}
            /\ vals # {} => merged.px[i] = <<MaxOf(vals)>>
    /\ \A q \in Permutations(DOMAIN rasters) :
         ConcatMax([k \in DOMAIN rasters |-> rasters[q[k]]]) = merged.px
    /\ (rasters[1].px = << <<1>>, NaN, <<3>>, <<4>>, <<5>>, NaN,
                           <<7>>, <<8>>, <<9>> >>
        /\ Len(rasters) = 2
        /\ rasters[2].px = << NaN, <<2>>, NaN, <<4>>, <<6>>, <<6>>,
                              NaN, NaN, <<10>> >>)
         => merged.px = << <<1>>, <<2>>, <<3>>, <<4>>, <<6>>, <<6>>,
                           <<7>>, <<8>>, <<10>> >>

C7_Witness ==
  /\ raster_files = <<TileA(Mollweide), TileB(Mollweide)>>
  /\ merged # NoRaster /\ Len(rasters) = 2
  /\ rasters[1].px[2] = NaN /\ rasters[2].px[1] = NaN
  /\ merged.px = << <<1>>, <<2>>, <<3>>, <<4>>, <<6>>, <<6>>,
                    <<7>>, <<8>>, <<10>> >>

\* C8: normalization turns every pixel equal to the sentinel -200 into NaN
\* and keeps every other pixel at its value cast to float32, negative values
\* included; every normalized tile is float32 with nodata NaN.
C8_NodataNormalization ==
  \A k \in DOMAIN rasters :
    /\ rasters[k].dtype = "float32" /\ rasters[k].nodata = NaN
    /\ DOMAIN rasters[k].px = DOMAIN InputPx(k)
    /\ \A i \in DOMAIN InputPx(k) :
         LET in == InputPx(k)[i]
             out == rasters[k].px[i]
         IN IF IsNaN(in) THEN IsNaN(out)
            ELSE IF in[1] = -200 THEN IsNaN(out)
            ELSE out = <<Float32(in[1])>> /\ (in[1] < 2^24 => out = in)

C8_Witness ==
  \E k \in DOMAIN rasters : \E i, j, l \in DOMAIN rasters[k].px :
    /\ InputPx(k)[i] = <<-200>> /\ rasters[k].px[i] = NaN
    /\ InputPx(k)[j] = <<-5>> /\ rasters[k].px[j] = <<-5>>
    /\ InputPx(k)[l] = <<16777217>> /\ rasters[k].px[l] = <<16777216>>

\* C9: a run is all-or-nothing with no retry: once a step has raised, no
\* later step executes and the output is not touched, no step executes twice,
\* and the run reaches its end.
C9_AllOrNothing ==
  /\ [][err # "none" =>
          (trace' = trace /\ output_file' = output_file /\ err' = err)]_vars
  /\ [](NoDuplicates(trace))
  /\ <>(pc = "exit")

C9_Witness ==
  /\ pc = "exit" /\ err = "Exception"
  /\ trace = <<"Discover", "LoadBoundary", "Normalize", "Merge",
               "ReconcileCRS", "Buffer", "Clip", "Reproject">>
  /\ output_file.kind = "previous"

\* C10: in the download loop every filtered row is counted in exactly one
\* of downloaded, skipped, failed: after k rows the three sum to k, and to
\* the number of filtered rows in the summary; a row whose file exists is
\* skipped and never downloaded, so no existing file is overwritten; a row
\* goes to the download at most once, failed or not.
C10_EveryRowCountedOnce ==
  /\ downloaded + skipped + failed = row
  /\ row <= Len(filtered_catalog)
  /\ Len(dl_calls) = downloaded + failed
  /\ NoDuplicates(dl_calls)
  /\ overwritten = {}
  /\ summary # <<>> =>
       /\ row = Len(filtered_catalog)
       /\ summary = <<downloaded, skipped, failed, Len(filtered_catalog)>>
       /\ summary[1] + summary[2] + summary[3] = summary[4]

C10_Witness ==
  /\ dpc = "done" /\ summary = <<1, 1, 1, 3>>
  /\ dl_calls = <<1, 2>>

====
